---- MODULE Spec2Model ----
(***************************************************************************)
(* MixOS kernel/kernel.c: the VGA text-mode terminal driver, the           *)
(* Multiboot2 information-block parser and kernel_main.                    *)
(*                                                                         *)
(* Spec      drives the terminal driver's public functions with arbitrary  *)
(*           calls (terminal_initialize, terminal_setcolor,                *)
(*           terminal_putchar, terminal_write).                            *)
(* SpecBoot  runs kernel_main on a magic value and an information block.   *)
(***************************************************************************)
EXTENDS Integers, Sequences, FiniteSets, TLC

(***************************************************************************)
(* VGA text mode                                                           *)
(***************************************************************************)
VGA_WIDTH == 80
VGA_HEIGHT == 25

\* enum vga_color (the members kernel.c uses)
VGA_BLACK == 0
VGA_LIGHT_GREY == 7
VGA_LIGHT_GREEN == 10
VGA_LIGHT_CYAN == 11
VGA_LIGHT_RED == 12
VGA_YELLOW == 14

\* fg | bg << 4 on two 4-bit enum values: the bit fields do not overlap, so
\* the bitwise or is a sum; the result is truncated to uint8_t.
vga_entry_color(fg, bg) == (fg + bg * 16) % 256

\* (uint16_t)c | (uint16_t)color << 8, c converted to unsigned char (0..255)
vga_entry(c, color) == (c % 256) + color * 256

\* The character and the attribute byte of a 16-bit cell.
CellChar(e) == e % 256
CellAttr(e) == e \div 256

\* Bytes with a meaning of their own in terminal_putchar.
NL == 10
TAB == 9
SPACE == 32

\* terminal_buffer[index], index = y * VGA_WIDTH + x, is kept as the cell x of
\* the row y of a 25 x 80 grid: index -> (index \div 80, index % 80).
Rows == 0 .. (VGA_HEIGHT - 1)
Cols == 0 .. (VGA_WIDTH - 1)
CellAt(buf, index) == buf[index \div VGA_WIDTH][index % VGA_WIDTH]

(***************************************************************************)
(* Bounds of the model                                                     *)
(***************************************************************************)
\* Calls of the terminal driver made by one run of Spec.
MaxOps == 3
\* Iterations of the parser's tag loop that print or move the cursor,
\* followed by one run of SpecBoot.
MaxIter == 6

VARIABLES
    terminal_row,       \* static size_t terminal_row
    terminal_column,    \* static size_t terminal_column
    terminal_color,     \* static uint8_t terminal_color
    terminal_buffer,    \* the 80x25 cells behind uint16_t* terminal_buffer
    call,               \* the driver call made last, with the cursor and colour it found
    nscroll,            \* terminal_scroll calls made by the call made last
    nops,               \* driver calls made so far (Spec)
    pc,                 \* where kernel_main is
    magic,              \* kernel_main's uint64_t magic, as four 16-bit limbs
    mem,                \* the bytes at multiboot_addr, multiboot_addr + 1, ...
    tag,                \* parse_multiboot_info's tag, as an offset from multiboot_addr
    step,               \* the tag the loop handled last and the payload bytes it read
    emitted,            \* what the parser printed of each tag: <<type, values...>>
    written,            \* the texts given to terminal_writestring so far
    parser_calls,       \* calls of parse_multiboot_info
    niter               \* iterations of the tag loop that printed or moved the cursor

tvars == <<terminal_row, terminal_column, terminal_color, terminal_buffer,
           call, nscroll, nops>>
bvars == <<pc, magic, mem, tag, step, emitted, written, parser_calls, niter>>
vars == <<tvars, bvars>>

(***************************************************************************)
(* The terminal driver as functions of the terminal state                  *)
(*   t = [row, col, color, buf, scrolls]                                   *)
(***************************************************************************)
Term == [row |-> terminal_row, col |-> terminal_column, color |-> terminal_color,
         buf |-> terminal_buffer, scrolls |-> 0]

\* terminal_initialize with the outer loop one row short (y < VGA_HEIGHT - 1).
InitializedButLastRow(t) ==
    LET color == vga_entry_color(VGA_LIGHT_GREY, VGA_BLACK)
    IN  [t EXCEPT !.row = 0, !.col = 0, !.color = color,
                  !.buf = [y \in Rows |->
                             IF y < VGA_HEIGHT - 1
                             THEN [x \in Cols |-> vga_entry(SPACE, color)]
                             ELSE t.buf[y]]]

\* terminal_initialize: cursor to the origin, colour light grey on black,
\* every cell a blank in that colour.
Initialized(t) ==
    LET color == vga_entry_color(VGA_LIGHT_GREY, VGA_BLACK)
    IN  [t EXCEPT !.row = 0, !.col = 0, !.color = color,
                  !.buf = [y \in Rows |-> [x \in Cols |-> vga_entry(SPACE, color)]]]

\* terminal_setcolor that repaints the screen in the new colour.
ColourSetRepaints(t, color) ==
    [t EXCEPT !.color = color,
              !.buf = [y \in Rows |-> [x \in Cols |->
                          vga_entry(CellChar(t.buf[y][x]), color)]]]

\* terminal_setcolor(color)
ColourSet(t, color) == [t EXCEPT !.color = color]

\* terminal_putentryat(c, color, x, y)
PutEntryAt(buf, c, color, x, y) ==
    LET index == y * VGA_WIDTH + x
    IN  [buf EXCEPT ![index \div VGA_WIDTH][index % VGA_WIDTH] = vga_entry(c, color)]

\* terminal_scroll blanking the last row in the default colour, not the current one.
ScrolledDefaultColour(t) ==
    LET blank == [x \in Cols |-> vga_entry(SPACE, vga_entry_color(VGA_LIGHT_GREY, VGA_BLACK))]
    IN  [t EXCEPT !.buf = [y \in Rows |->
                              IF y < VGA_HEIGHT - 1 THEN t.buf[y + 1] ELSE blank],
                  !.scrolls = @ + 1]

\* terminal_scroll: each row y in 0..23 takes, cell for cell and column for
\* column, the cells (y + 1) * VGA_WIDTH + x of the row below (the loop runs
\* top down, so each source row is read before it is overwritten); the last
\* row is blanked in the current colour.
Scrolled(t) ==
    LET blank == [x \in Cols |-> vga_entry(SPACE, t.color)]
    IN  [t EXCEPT !.buf = [y \in Rows |->
                              IF y < VGA_HEIGHT - 1 THEN t.buf[y + 1] ELSE blank],
                  !.scrolls = @ + 1]

\* The row advance that scrolls at the bottom but leaves the row at VGA_HEIGHT.
RowAdvanceUnpinned(t) ==
    IF t.row + 1 = VGA_HEIGHT
    THEN Scrolled([t EXCEPT !.row = VGA_HEIGHT])
    ELSE [t EXCEPT !.row = t.row + 1]

\* if (++terminal_row == VGA_HEIGHT) { terminal_row = VGA_HEIGHT - 1; terminal_scroll(); }
RowAdvance(t) ==
    IF t.row + 1 = VGA_HEIGHT
    THEN Scrolled([t EXCEPT !.row = VGA_HEIGHT - 1])
    ELSE [t EXCEPT !.row = t.row + 1]

\* The newline that advances the row and keeps the column.
PutNewlineKeepsColumn(t) == RowAdvance(t)

\* terminal_putchar, c == '\n'
PutNewline(t) == RowAdvance([t EXCEPT !.col = 0])

\* (terminal_column + 3) & ~3: the tab stop at or after the column.
TabStopAtOrAfter(col) == (col + 3) - ((col + 3) % 4)

\* (terminal_column + 4) & ~3
TabStop(col) == (col + 4) - ((col + 4) % 4)

\* The tab that paints blanks in the current colour up to the tab stop.
PutTabPaintsBlanks(t) ==
    LET col == TabStop(t.col)
        painted == [t EXCEPT !.buf[t.row] =
                       [x \in Cols |-> IF x >= t.col /\ x < col
                                       THEN vga_entry(SPACE, t.color)
                                       ELSE t.buf[t.row][x]]]
    IN  IF col >= VGA_WIDTH
        THEN RowAdvance([painted EXCEPT !.col = 0])
        ELSE [painted EXCEPT !.col = col]

\* terminal_putchar, c == '\t'
PutTab(t) ==
    LET col == TabStop(t.col)
    IN  IF col >= VGA_WIDTH
        THEN RowAdvance([t EXCEPT !.col = 0])
        ELSE [t EXCEPT !.col = col]

\* The plain byte that wraps one cell late (terminal_column++ == VGA_WIDTH).
PutPlainWrapsLate(t, c) ==
    LET w == [t EXCEPT !.buf = PutEntryAt(t.buf, c, t.color, t.col, t.row)]
    IN  IF t.col = VGA_WIDTH
        THEN RowAdvance([w EXCEPT !.col = 0])
        ELSE [w EXCEPT !.col = t.col + 1]

\* terminal_putchar, any other byte
PutPlain(t, c) ==
    LET w == [t EXCEPT !.buf = PutEntryAt(t.buf, c, t.color, t.col, t.row)]
    IN  IF t.col + 1 = VGA_WIDTH
        THEN RowAdvance([w EXCEPT !.col = 0])
        ELSE [w EXCEPT !.col = t.col + 1]

\* terminal_putchar(c)
PutChar(t, c) ==
    IF c = NL THEN PutNewline(t)
    ELSE IF c = TAB THEN PutTab(t)
    ELSE PutPlain(t, c)

\* terminal_write(data, size): terminal_putchar on data[0], ..., data[size-1]
\* in order. WriteRange(t, data, lo, hi) is the loop over i = lo..hi, split in
\* two halves run one after the other (the order of the calls is the loop's).
\* The state reached half-way is bound as the one element of a set, so that
\* it is computed once, before the second half starts.
RECURSIVE WriteRange(_, _, _, _)
WriteRange(t, data, lo, hi) ==
    IF lo > hi THEN t
    ELSE IF lo = hi THEN PutChar(t, data[lo])
    ELSE LET mid == (lo + hi) \div 2
         IN  CHOOSE r \in {WriteRange(half, data, mid + 1, hi) :
                              half \in {WriteRange(t, data, lo, mid)}} : TRUE

Written(t, data, size) == WriteRange(t, data, 1, size)

\* strlen-style scan of terminal_writestring: the bytes before the first 0
RECURSIVE StrLen(_, _)
StrLen(data, n) ==
    IF n + 1 > Len(data) \/ data[n + 1] = 0 THEN n ELSE StrLen(data, n + 1)

\* terminal_writestring(data) on a literal (a byte sequence ending in 0): len
\* is computed first, then terminal_write(data, len) is called.
WrittenString(t, data) ==
    CHOOSE r \in {Written(t, data, len) : len \in {StrLen(data, 0)}} : TRUE

\* The terminal state t becomes the state of the driver.
SetTerm(t) ==
    /\ terminal_row' = t.row
    /\ terminal_column' = t.col
    /\ terminal_color' = t.color
    /\ terminal_buffer' = t.buf
    /\ nscroll' = t.scrolls

\* What a call finds: its name, its arguments, the cursor and the colour.
Call(op, c, data) ==
    [op |-> op, c |-> c, data |-> data,
     row |-> terminal_row, col |-> terminal_column, color |-> terminal_color]

(***************************************************************************)
(* Spec: arbitrary calls of the driver                                     *)
(***************************************************************************)
\* Bytes given to terminal_putchar.
PutBytes == {NL, TAB, 0, 65, 255}
\* Attribute bytes given to terminal_setcolor (white on red).
SetColors == {79}

\* n newlines
Newlines(n) == [i \in 1 .. n |-> NL]
\* n bytes that are neither '\n' nor '\t', neighbours differing, bytes above
\* 127 (negative as a char) and the byte 0 among them
Pattern(n) == [i \in 1 .. n |-> IF i % 16 = 3 THEN 0 ELSE 33 + ((i * 37) % 223)]

\* Byte strings given to terminal_write: rows of plain bytes that end short
\* of, at and one before the end of a row, the newlines that take the cursor
\* to the last two rows, and a text that fills rows 22 and 23 and all of row 24
\* but its last cell.
WriteLens == {5, 76, 77, 78, 79, 80}
WriteData ==
    {Pattern(n) : n \in WriteLens}
        \cup {Newlines(VGA_HEIGHT - 2), Newlines(VGA_HEIGHT - 1),
              Newlines(VGA_HEIGHT - 3) \o Pattern(3 * VGA_WIDTH - 1)}

Init ==
    LET t == Initialized([row |-> 0, col |-> 0, color |-> 0,
                          buf |-> [y \in Rows |-> [x \in Cols |-> 0]], scrolls |-> 0])
    IN  /\ terminal_row = t.row
        /\ terminal_column = t.col
        /\ terminal_color = t.color
        /\ terminal_buffer = t.buf
        /\ call = [op |-> "terminal_initialize", c |-> 0, data |-> <<>>,
                   row |-> 0, col |-> 0, color |-> 0]
        /\ nscroll = 0
        /\ nops = 0
        /\ pc = "Driver"
        /\ magic = <<0, 0, 0, 0>>
        /\ mem = <<>>
        /\ tag = 0
        /\ step = [tag |-> 0, type |-> [hi |-> 0, lo |-> 0],
                   size |-> [hi |-> 0, lo |-> 0], nread |-> 0]
        /\ emitted = <<>>
        /\ written = <<>>
        /\ parser_calls = 0
        /\ niter = 0

terminal_initialize ==
    /\ nops < MaxOps
    /\ SetTerm(Initialized(Term))
    /\ call' = Call("terminal_initialize", 0, <<>>)
    /\ nops' = nops + 1
    /\ UNCHANGED bvars

terminal_setcolor ==
    /\ nops < MaxOps
    /\ \E color \in SetColors :
          /\ SetTerm(ColourSet(Term, color))
          /\ call' = Call("terminal_setcolor", color, <<>>)
    /\ nops' = nops + 1
    /\ UNCHANGED bvars

terminal_putchar ==
    /\ nops < MaxOps
    /\ \E c \in PutBytes :
          /\ SetTerm(PutChar(Term, c))
          /\ call' = Call("terminal_putchar", c, <<>>)
    /\ nops' = nops + 1
    /\ UNCHANGED bvars

terminal_write ==
    /\ nops < MaxOps
    /\ \E data \in WriteData :
          /\ SetTerm(Written(Term, data, Len(data)))
          /\ call' = Call("terminal_write", 0, data)
    /\ nops' = nops + 1
    /\ UNCHANGED bvars

Next ==
    \/ terminal_initialize
    \/ terminal_setcolor
    \/ terminal_putchar
    \/ terminal_write

Spec == Init /\ [][Next]_vars

(***************************************************************************)
(* The string literals of kernel.c, as their bytes with the terminating 0  *)
(***************************************************************************)
\* "Multiboot information at: 0x"
S_MB_AT ==
    <<77, 117, 108, 116, 105, 98, 111, 111, 116, 32, 105, 110, 102, 111, 114,
      109, 97, 116, 105, 111, 110, 32, 97, 116, 58, 32, 48, 120, 0>>

\* "\n"
S_NL ==
    <<10, 0>>

\* "  Command line: "
S_CMDLINE ==
    <<32, 32, 67, 111, 109, 109, 97, 110, 100, 32, 108, 105, 110, 101, 58,
      32, 0>>

\* "  Bootloader: "
S_BOOTLOADER ==
    <<32, 32, 66, 111, 111, 116, 108, 111, 97, 100, 101, 114, 58, 32, 0>>

\* "  Memory detected\n"
S_MEMORY ==
    <<32, 32, 77, 101, 109, 111, 114, 121, 32, 100, 101, 116, 101, 99, 116,
      101, 100, 10, 0>>

\* "=================================\n"
S_RULE ==
    <<61, 61, 61, 61, 61, 61, 61, 61, 61, 61, 61, 61, 61, 61, 61, 61, 61, 61,
      61, 61, 61, 61, 61, 61, 61, 61, 61, 61, 61, 61, 61, 61, 61, 10, 0>>

\* "    MixOS Kernel v0.1.0\n"
S_TITLE ==
    <<32, 32, 32, 32, 77, 105, 120, 79, 83, 32, 75, 101, 114, 110, 101, 108,
      32, 118, 48, 46, 49, 46, 48, 10, 0>>

\* "=================================\n\n"
S_RULE_END ==
    <<61, 61, 61, 61, 61, 61, 61, 61, 61, 61, 61, 61, 61, 61, 61, 61, 61, 61,
      61, 61, 61, 61, 61, 61, 61, 61, 61, 61, 61, 61, 61, 61, 61, 10, 10, 0>>

\* "[ERROR] Invalid Multiboot magic number!\n"
S_ERR_MAGIC ==
    <<91, 69, 82, 82, 79, 82, 93, 32, 73, 110, 118, 97, 108, 105, 100, 32,
      77, 117, 108, 116, 105, 98, 111, 111, 116, 32, 109, 97, 103, 105, 99,
      32, 110, 117, 109, 98, 101, 114, 33, 10, 0>>

\* "System halted.\n"
S_HALTED ==
    <<83, 121, 115, 116, 101, 109, 32, 104, 97, 108, 116, 101, 100, 46, 10,
      0>>

\* "[OK] Multiboot2 boot detected\n"
S_OK_MULTIBOOT ==
    <<91, 79, 75, 93, 32, 77, 117, 108, 116, 105, 98, 111, 111, 116, 50, 32,
      98, 111, 111, 116, 32, 100, 101, 116, 101, 99, 116, 101, 100, 10, 0>>

\* "\n[INFO] Parsing multiboot information...\n"
S_INFO_PARSING ==
    <<10, 91, 73, 78, 70, 79, 93, 32, 80, 97, 114, 115, 105, 110, 103, 32,
      109, 117, 108, 116, 105, 98, 111, 111, 116, 32, 105, 110, 102, 111,
      114, 109, 97, 116, 105, 111, 110, 46, 46, 46, 10, 0>>

\* "\n[INFO] Initializing architecture (x86_64)...\n"
S_INIT_ARCH ==
    <<10, 91, 73, 78, 70, 79, 93, 32, 73, 110, 105, 116, 105, 97, 108, 105,
      122, 105, 110, 103, 32, 97, 114, 99, 104, 105, 116, 101, 99, 116, 117,
      114, 101, 32, 40, 120, 56, 54, 95, 54, 52, 41, 46, 46, 46, 10, 0>>

\* "[INFO] Initializing memory management...\n"
S_INIT_MM ==
    <<91, 73, 78, 70, 79, 93, 32, 73, 110, 105, 116, 105, 97, 108, 105, 122,
      105, 110, 103, 32, 109, 101, 109, 111, 114, 121, 32, 109, 97, 110, 97,
      103, 101, 109, 101, 110, 116, 46, 46, 46, 10, 0>>

\* "[INFO] Initializing scheduler...\n"
S_INIT_SCHED ==
    <<91, 73, 78, 70, 79, 93, 32, 73, 110, 105, 116, 105, 97, 108, 105, 122,
      105, 110, 103, 32, 115, 99, 104, 101, 100, 117, 108, 101, 114, 46, 46,
      46, 10, 0>>

\* "[INFO] Initializing drivers...\n"
S_INIT_DRIVERS ==
    <<91, 73, 78, 70, 79, 93, 32, 73, 110, 105, 116, 105, 97, 108, 105, 122,
      105, 110, 103, 32, 100, 114, 105, 118, 101, 114, 115, 46, 46, 46, 10,
      0>>

\* "[INFO] Initializing filesystem...\n"
S_INIT_FS ==
    <<91, 73, 78, 70, 79, 93, 32, 73, 110, 105, 116, 105, 97, 108, 105, 122,
      105, 110, 103, 32, 102, 105, 108, 101, 115, 121, 115, 116, 101, 109,
      46, 46, 46, 10, 0>>

\* "[READY] Kernel initialization complete!\n"
S_READY ==
    <<91, 82, 69, 65, 68, 89, 93, 32, 75, 101, 114, 110, 101, 108, 32, 105,
      110, 105, 116, 105, 97, 108, 105, 122, 97, 116, 105, 111, 110, 32, 99,
      111, 109, 112, 108, 101, 116, 101, 33, 10, 0>>

\* "\nMixOS is now running in kernel mode.\n"
S_RUNNING ==
    <<10, 77, 105, 120, 79, 83, 32, 105, 115, 32, 110, 111, 119, 32, 114,
      117, 110, 110, 105, 110, 103, 32, 105, 110, 32, 107, 101, 114, 110,
      101, 108, 32, 109, 111, 100, 101, 46, 10, 0>>

\* "Next step: implement userspace and system calls.\n"
S_NEXT_STEP ==
    <<78, 101, 120, 116, 32, 115, 116, 101, 112, 58, 32, 105, 109, 112, 108,
      101, 109, 101, 110, 116, 32, 117, 115, 101, 114, 115, 112, 97, 99, 101,
      32, 97, 110, 100, 32, 115, 121, 115, 116, 101, 109, 32, 99, 97, 108,
      108, 115, 46, 10, 0>>

(***************************************************************************)
(* kernel_main and parse_multiboot_info                                    *)
(***************************************************************************)
\* 0x36d76289 as a 64-bit value: four 16-bit limbs, most significant first
\* (0x0000, 0x0000, 0x36d7, 0x6289).
MULTIBOOT2_MAGIC == <<0, 0, 14039, 25225>>

\* The comparison on the low 32 bits alone (a 32-bit magic parameter).
MagicMatchesLow32(m) ==
    <<m[3], m[4]>> = <<MULTIBOOT2_MAGIC[3], MULTIBOOT2_MAGIC[4]>>

\* !(magic != 0x36d76289): uint64_t magic against the constant converted to
\* uint64_t, so all 64 bits are compared.
MagicMatches(m) == m = MULTIBOOT2_MAGIC

\* The byte at multiboot_addr + a. mem holds the bytes from multiboot_addr
\* on: the information block and the bytes that follow it in memory.
Byte(a) == mem[a + 1]
InMem(a) == a >= 0 /\ a < Len(mem)

\* A uint32_t field at offset a (x86-64 is little-endian), as two 16-bit
\* limbs: the value is hi * 65536 + lo.
ReadU32(a) ==
    [hi |-> Byte(a + 2) + 256 * Byte(a + 3), lo |-> Byte(a) + 256 * Byte(a + 1)]

IsType(type, k) == type.hi = 0 /\ type.lo = k

\* (tag->size + 8) & ~7: the rounding that skips a tag's worth of alignment
\* when the size is a multiple of 8 already.
RoundUp8Over(size) ==
    LET lo8 == size.lo + 8
        lo == lo8 % 65536
        hi == (size.hi + lo8 \div 65536) % 65536
    IN  [hi |-> hi, lo |-> lo - (lo % 8)]

\* (tag->size + 6) & ~7: the rounding that drops a byte.
RoundUp8Short(size) ==
    LET lo6 == size.lo + 6
        lo == lo6 % 65536
        hi == (size.hi + lo6 \div 65536) % 65536
    IN  [hi |-> hi, lo |-> lo - (lo % 8)]

\* (tag->size + 7) & ~7 in uint32_t arithmetic (modulo 2^32)
RoundUp8(size) ==
    LET lo7 == size.lo + 7
        lo == lo7 % 65536
        hi == (size.hi + lo7 \div 65536) % 65536
    IN  [hi |-> hi, lo |-> lo - (lo % 8)]

\* An offset past every byte of mem: the offsets from here on all lie outside
\* the memory that is modelled and stand for one another.
OutOfReach == 65536

\* (uint8_t*)tag + advance
Advanced(a, advance) ==
    IF advance.hi > 0 \/ a + advance.lo >= OutOfReach
    THEN OutOfReach
    ELSE a + advance.lo

\* The scan of terminal_writestring over the bytes at offset a: the number
\* of bytes before the first 0, or -1 when the scan leaves mem without
\* meeting one.
RECURSIVE MemStrLen(_, _)
MemStrLen(a, n) ==
    IF ~InMem(a + n) THEN -1
    ELSE IF Byte(a + n) = 0 THEN n
    ELSE MemStrLen(a, n + 1)

MemBytes(a, n) == [i \in 1 .. n |-> Byte(a + i - 1)]

\* The text of a literal: its bytes before the terminating 0.
Text(data) == SubSeq(data, 1, StrLen(data, 0))

\* The calls kernel_main makes of the driver, as they stand in its text.
SetColor(fg, bg) == <<"terminal_setcolor", vga_entry_color(fg, bg)>>
WriteString(data) == <<"terminal_writestring", data>>

\* The driver after the calls of a list, made in order (the state after a
\* call is computed once, before the next call is looked at).
RECURSIVE Printed(_, _, _)
Printed(t, calls, i) ==
    IF i > Len(calls) THEN t
    ELSE CHOOSE r \in {Printed(after, calls, i + 1) :
                          after \in {IF calls[i][1] = "terminal_setcolor"
                                     THEN ColourSet(t, calls[i][2])
                                     ELSE WrittenString(t, calls[i][2])}} : TRUE

\* The texts terminal_writestring is given by the calls of a list.
RECURSIVE Texts(_, _)
Texts(calls, i) ==
    IF i > Len(calls) THEN <<>>
    ELSE IF calls[i][1] = "terminal_setcolor" THEN Texts(calls, i + 1)
    ELSE <<Text(calls[i][2])>> \o Texts(calls, i + 1)

\* kernel_main, lines 271-279, after terminal_initialize
StartOutput ==
    <<SetColor(VGA_LIGHT_CYAN, VGA_BLACK),
      WriteString(S_RULE), WriteString(S_TITLE), WriteString(S_RULE_END),
      SetColor(VGA_LIGHT_GREY, VGA_BLACK)>>
\* kernel_main, lines 283-285
BadMagicOutput ==
    <<SetColor(VGA_LIGHT_RED, VGA_BLACK),
      WriteString(S_ERR_MAGIC), WriteString(S_HALTED)>>
\* kernel_main, lines 289-294
GoodMagicOutput ==
    <<SetColor(VGA_LIGHT_GREEN, VGA_BLACK), WriteString(S_OK_MULTIBOOT),
      SetColor(VGA_LIGHT_GREY, VGA_BLACK), WriteString(S_INFO_PARSING)>>
\* parse_multiboot_info, lines 230-232
HeadingOutput == <<WriteString(S_MB_AT), WriteString(S_NL)>>
\* kernel_main's report with the scheduler notice ahead of the memory one.
ReportOutputSchedulerEarly ==
    <<WriteString(S_INIT_ARCH), WriteString(S_INIT_SCHED), WriteString(S_INIT_MM),
      WriteString(S_INIT_DRIVERS), WriteString(S_INIT_FS), WriteString(S_NL),
      SetColor(VGA_YELLOW, VGA_BLACK), WriteString(S_READY),
      SetColor(VGA_LIGHT_GREY, VGA_BLACK),
      WriteString(S_RUNNING), WriteString(S_NEXT_STEP)>>

\* kernel_main, lines 298-322
ReportOutput ==
    <<WriteString(S_INIT_ARCH), WriteString(S_INIT_MM), WriteString(S_INIT_SCHED),
      WriteString(S_INIT_DRIVERS), WriteString(S_INIT_FS), WriteString(S_NL),
      SetColor(VGA_YELLOW, VGA_BLACK), WriteString(S_READY),
      SetColor(VGA_LIGHT_GREY, VGA_BLACK),
      WriteString(S_RUNNING), WriteString(S_NEXT_STEP)>>

\* The driver is left in state t after the texts were written.
Output(t, texts, fn) ==
    /\ SetTerm(t)
    /\ call' = Call(fn, 0, <<>>)
    /\ written' = written \o texts
    /\ UNCHANGED nops

\* kernel_main up to the magic check: terminal_initialize and the banner.
KernelStart ==
    /\ pc = "Start"
    /\ Output(Printed(Initialized(Term), StartOutput, 1),
              Texts(StartOutput, 1), "kernel_main")
    /\ pc' = "MagicChecked"
    /\ UNCHANGED <<magic, mem, tag, step, emitted, parser_calls, niter>>

\* if (magic != 0x36d76289) { ...; goto halt; }
MagicBad ==
    /\ pc = "MagicChecked"
    /\ ~MagicMatches(magic)
    /\ Output(Printed(Term, BadMagicOutput, 1), Texts(BadMagicOutput, 1),
              "kernel_main")
    /\ pc' = "Halted"
    /\ UNCHANGED <<magic, mem, tag, step, emitted, parser_calls, niter>>

\* The magic matches: the success notice, up to the call of the parser.
MagicGood ==
    /\ pc = "MagicChecked"
    /\ MagicMatches(magic)
    /\ Output(Printed(Term, GoodMagicOutput, 1), Texts(GoodMagicOutput, 1),
              "kernel_main")
    /\ pc' = "Parse"
    /\ UNCHANGED <<magic, mem, tag, step, emitted, parser_calls, niter>>

\* parse_multiboot_info up to the loop: the heading, tag = multiboot_addr + 8.
ParseEnter ==
    /\ pc = "Parse"
    /\ Output(Printed(Term, HeadingOutput, 1), Texts(HeadingOutput, 1),
              "parse_multiboot_info")
    /\ parser_calls' = parser_calls + 1
    /\ tag' = 8
    /\ pc' = "TagLoop"
    /\ UNCHANGED <<magic, mem, step, emitted, niter>>

\* A read of the tag's type, or of its size once the type is not 0, outside
\* the memory that is modelled.
HeaderOutside ==
    IF ~InMem(tag + 3) THEN TRUE
    ELSE ~IsType(ReadU32(tag), 0) /\ ~InMem(tag + 7)

\* One iteration of the loop on a tag whose type is not 0: the switch, then
\* the advance by (size + 7) & ~7. A string whose scan leaves the memory
\* that is modelled ends the run in "Fault", after its label was written.
\* An iteration that prints nothing and advances by 0 leaves the program
\* where it was, so that the loop repeats it for ever: it is not counted,
\* niter counts the iterations that print or move the cursor.
ParseTag ==
    /\ pc = "TagLoop"
    /\ niter < MaxIter
    /\ ~HeaderOutside
    /\ LET type == ReadU32(tag)
           size == ReadU32(tag + 4)
           str == IsType(type, 1) \/ IsType(type, 2)
           label == IF IsType(type, 1) THEN S_CMDLINE ELSE S_BOOTLOADER
           n == MemStrLen(tag + 8, 0)
           string == MemBytes(tag + 8, n)
       IN  /\ ~IsType(type, 0)
           /\ IF str /\ n < 0
              THEN /\ Output(WrittenString(Term, label), <<Text(label)>>,
                             "parse_multiboot_info")
                   /\ step' = [tag |-> tag, type |-> type, size |-> size,
                               nread |-> Len(mem) - (tag + 8) + 1]
                   /\ pc' = "Fault"
                   /\ UNCHANGED <<tag, emitted>>
              ELSE /\ IF str
                      THEN /\ Output(WrittenString(
                                         Written(WrittenString(Term, label), string, n),
                                         S_NL),
                                     <<Text(label), string, Text(S_NL)>>,
                                     "parse_multiboot_info")
                           /\ emitted' = Append(emitted, <<type.lo, string>>)
                           /\ step' = [tag |-> tag, type |-> type, size |-> size,
                                       nread |-> n + 1]
                      ELSE IF IsType(type, 4)
                      THEN /\ Output(WrittenString(Term, S_MEMORY), <<Text(S_MEMORY)>>,
                                     "parse_multiboot_info")
                           /\ emitted' = Append(emitted, <<4>>)
                           /\ step' = [tag |-> tag, type |-> type, size |-> size,
                                       nread |-> 0]
                      ELSE /\ Output(Term, <<>>, "parse_multiboot_info")
                           /\ emitted' = emitted
                           /\ step' = [tag |-> tag, type |-> type, size |-> size,
                                       nread |-> 0]
                   /\ tag' = Advanced(tag, RoundUp8(size))
                   /\ pc' = "TagLoop"
           /\ niter' = (IF tag' = tag /\ written' = written THEN niter ELSE niter + 1)
    /\ UNCHANGED <<magic, mem, parser_calls>>

\* tag->type == 0: the loop ends and parse_multiboot_info returns.
ParseEnd ==
    /\ pc = "TagLoop"
    /\ ~HeaderOutside
    /\ IsType(ReadU32(tag), 0)
    /\ pc' = "Reporting"
    /\ UNCHANGED <<tvars, magic, mem, tag, step, emitted, written, parser_calls, niter>>

\* The loop reads a tag header outside the memory that is modelled.
ParseFault ==
    /\ pc = "TagLoop"
    /\ HeaderOutside
    /\ pc' = "Fault"
    /\ UNCHANGED <<tvars, magic, mem, tag, step, emitted, written, parser_calls, niter>>

\* kernel_main after the parser: the subsystem notices, up to the halt label.
Report ==
    /\ pc = "Reporting"
    /\ Output(Printed(Term, ReportOutput, 1), Texts(ReportOutput, 1), "kernel_main")
    /\ pc' = "Halted"
    /\ UNCHANGED <<magic, mem, tag, step, emitted, parser_calls, niter>>

\* halt: while (1) hlt
Halt ==
    /\ pc = "Halted"
    /\ UNCHANGED vars

(***************************************************************************)
(* SpecBoot: kernel_main on a magic value and an information block         *)
(***************************************************************************)
\* n as the four bytes of a little-endian uint32_t (n < 2^31)
U32(n) == <<n % 256, (n \div 256) % 256, (n \div 65536) % 256, (n \div 16777216) % 256>>
\* hi * 65536 + lo as the four bytes of a little-endian uint32_t
U32Limbs(hi, lo) == <<lo % 256, lo \div 256, hi % 256, hi \div 256>>
Fill(n, b) == [i \in 1 .. n |-> b]
\* bytes, followed by the filler bytes that take them to a multiple of 8
Padded(bytes, b) == bytes \o Fill((8 - (Len(bytes) % 8)) % 8, b)
\* A tag: type, size, payload and alignment padding.
Tag(type, size, payload, padding) == Padded(U32(type) \o U32(size) \o payload, padding)
\* A well-formed string tag: size counts the header, the text and its 0.
StringTag(type, text) == Tag(type, 8 + Len(text) + 1, text \o <<0>>, 0)
MemInfoTag(lower, upper) == Tag(4, 16, U32(lower) \o U32(upper), 0)
EndTag == Tag(0, 8, <<>>, 0)
\* The block: total_size, reserved, the tags.
Block(tags) == U32(8 + Len(tags)) \o U32(0) \o tags

\* "root=/dev/sda1"
TXT_ROOT == <<114, 111, 111, 116, 61, 47, 100, 101, 118, 47, 115, 100, 97, 49>>
\* "GRUB 2.06"
TXT_GRUB == <<71, 82, 85, 66, 32, 50, 46, 48, 54>>
\* "quiet"
TXT_QUIET == <<113, 117, 105, 101, 116>>
\* "ABCDEFGH"
TXT_8 == <<65, 66, 67, 68, 69, 70, 71, 72>>

\* Information blocks: well-formed ones (with and without tags of unknown
\* types and of sizes 8, 9, 15, 16, 17), and malformed ones: no end tag, a tag
\* of size 7, of size 0, of size 2^32 - 7, 2^32 - 8 and 2^16, a string
\* without its 0.
WellFormedBlocks ==
    { Block(StringTag(1, TXT_ROOT) \o StringTag(2, TXT_GRUB)
              \o MemInfoTag(639, 130048) \o EndTag),
      Block(EndTag),
      Block(StringTag(2, TXT_GRUB) \o StringTag(1, <<>>) \o EndTag),
      Block(MemInfoTag(0, 0) \o StringTag(1, TXT_QUIET) \o EndTag),
      Block(Tag(8, 9, <<1>>, 170) \o StringTag(1, TXT_QUIET)
              \o Tag(21, 15, Fill(7, 65), 170) \o Tag(6, 16, Fill(8, 66), 170)
              \o Tag(3, 17, Fill(9, 67), 170) \o Tag(7, 8, <<>>, 170) \o EndTag) }
MalformedBlocks ==
    { Block(StringTag(1, TXT_QUIET)),
      Block(StringTag(1, TXT_QUIET) \o Tag(6, 16, Fill(8, 66), 0)),
      Block(Tag(1, 7, <<>>, 0) \o StringTag(2, TXT_GRUB) \o EndTag),
      Block(Tag(3, 7, <<>>, 0) \o StringTag(2, TXT_GRUB) \o EndTag),
      Block(Tag(4, 0, <<>>, 0) \o EndTag),
      Block(Tag(5, 0, <<>>, 0) \o EndTag),
      Block(U32(9) \o U32Limbs(65535, 65529) \o EndTag),
      Block(U32(9) \o U32Limbs(65535, 65528) \o EndTag),
      Block(U32(9) \o U32Limbs(1, 0) \o EndTag),
      Block(Tag(1, 16, TXT_8, 0) \o MemInfoTag(639, 130048) \o EndTag),
      Block(Tag(2, 12, <<71, 82, 85, 66>>, 33) \o EndTag) }
InfoBlocks == WellFormedBlocks \cup MalformedBlocks

\* The bytes that follow the block in memory: none that can be read, zeroes,
\* and two kinds of leftovers.
Tails == {<<>>, Fill(16, 0), Fill(16, 255), Fill(16, 65)}

\* Magic values: the Multiboot2 one, 0, 2^64 - 1, the Multiboot2 one with
\* bits set above bit 31, the Multiboot1 one (0x2BADB002).
Magics ==
    {MULTIBOOT2_MAGIC, <<0, 0, 0, 0>>, <<65535, 65535, 65535, 65535>>,
     <<0, 1, 14039, 25225>>, <<32768, 0, 14039, 25225>>, <<0, 0, 11181, 45058>>}

\* What the VGA memory holds when kernel_main is entered.
PowerOnCells == {0, vga_entry(SPACE, vga_entry_color(VGA_LIGHT_GREY, VGA_BLACK))}

InitBoot ==
    /\ pc = "Start"
    /\ magic \in Magics
    /\ \E block \in InfoBlocks, tail \in Tails : mem = block \o tail
    /\ tag = 0
    /\ step = [tag |-> 0, type |-> [hi |-> 0, lo |-> 0], size |-> [hi |-> 0, lo |-> 0],
               nread |-> 0]
    /\ emitted = <<>>
    /\ written = <<>>
    /\ parser_calls = 0
    /\ niter = 0
    /\ terminal_row = 0
    /\ terminal_column = 0
    /\ terminal_color = 0
    /\ \E cell \in PowerOnCells : terminal_buffer = [y \in Rows |-> [x \in Cols |-> cell]]
    /\ call = [op |-> "", c |-> 0, data |-> <<>>, row |-> 0, col |-> 0, color |-> 0]
    /\ nscroll = 0
    /\ nops = 0

NextBoot ==
    \/ KernelStart
    \/ MagicBad
    \/ MagicGood
    \/ ParseEnter
    \/ ParseTag
    \/ ParseEnd
    \/ ParseFault
    \/ Report
    \/ Halt

SpecBoot == InitBoot /\ [][NextBoot]_vars

\* The processor goes on executing kernel_main: a step that can be taken is
\* taken (nothing preempts the kernel, no interrupt handler is installed).
SpecBootLive == InitBoot /\ [][NextBoot]_vars /\ WF_vars(NextBoot)

(***************************************************************************)
(* Properties of the terminal driver (checked under Spec)                  *)
(***************************************************************************)
Plain(c) == c # NL /\ c # TAB

\* C1: in every state reached by terminal_initialize, terminal_setcolor,
\* terminal_putchar and terminal_write calls the cursor is on the screen:
\* 0 <= terminal_row < 25 and 0 <= terminal_column < 80.
C1_CursorOnScreen ==
    /\ terminal_row \in 0 .. 24
    /\ terminal_column \in 0 .. 79

\* A plain byte has just been put in the last cell of the screen.
C1_Witness ==
    /\ call.op = "terminal_putchar" /\ Plain(call.c)
    /\ call.row = 24 /\ call.col = 79
    /\ terminal_row = 24 /\ terminal_column = 0

\* terminal_putchar(c) at column col moves to column 0 of the next row.
Wraps(col, c) ==
    \/ c = NL
    \/ c = TAB /\ col >= 76
    \/ Plain(c) /\ col = 79

\* C2: a terminal_putchar on row 24 that wraps scrolls: every cell (y, x),
\* y in 0..23, becomes what cell (y+1, x) held right before the scroll (a
\* byte just written at (24, 79) included), row 24 becomes blanks in the
\* current attribute, and the cursor row stays 24.
C2_ScrollOnLastRowWrap ==
    [][(call'.op = "terminal_putchar" /\ terminal_row = 24
            /\ Wraps(terminal_column, call'.c))
        => LET c == call'.c
               before == IF Plain(c)
                         THEN [terminal_buffer EXCEPT
                                  ![24][terminal_column] = c + 256 * terminal_color]
                         ELSE terminal_buffer
           IN  /\ \A y \in 0 .. 23 : \A x \in 0 .. 79 :
                     terminal_buffer'[y][x] = before[y + 1][x]
               /\ \A x \in 0 .. 79 :
                     terminal_buffer'[24][x] = SPACE + 256 * terminal_color'
               /\ terminal_row' = 24]_vars

\* A plain byte was put at (24, 79) in a colour other than the default one,
\* below rows of text, and the screen scrolled.
C2_Witness ==
    /\ call.op = "terminal_putchar" /\ call.c = 65
    /\ call.row = 24 /\ call.col = 79 /\ call.color = 79
    /\ nscroll = 1
    /\ terminal_buffer[23][79] = 65 + 256 * 79
    /\ terminal_buffer[22][40] # terminal_buffer[21][40]
    /\ terminal_buffer[24][0] = SPACE + 256 * 79

\* C8: terminal_write of N plain bytes from column 0 of a row r, r + 1 < 25:
\* N < 80 ends at (r, N), N = 80 ends at (r + 1, 0) without a scroll; the
\* cells (r, 0) .. (r, N - 1) hold the bytes in order in the active attribute.
C8_WriteRow ==
    [][(call'.op = "terminal_write" /\ terminal_column = 0
            /\ terminal_row + 1 < 25 /\ Len(call'.data) <= 80
            /\ \A i \in 1 .. Len(call'.data) : Plain(call'.data[i]))
        => LET data == call'.data
               N == Len(data)
               r == terminal_row
           IN  /\ N < 80 => terminal_row' = r /\ terminal_column' = N
               /\ N = 80 => terminal_row' = r + 1 /\ terminal_column' = 0
               /\ nscroll' = 0
               /\ \A x \in 0 .. N - 1 :
                     terminal_buffer'[r][x] = data[x + 1] + 256 * terminal_color]_vars

\* 80 plain bytes were written from (23, 0) in a colour other than the default.
C8_Witness ==
    /\ call.op = "terminal_write" /\ Len(call.data) = 80
    /\ call.row = 23 /\ call.col = 0 /\ call.color = 79
    /\ terminal_row = 24 /\ terminal_column = 0
    /\ terminal_buffer[23][79] = call.data[80] + 256 * 79

\* The next multiple of 4 strictly greater than c.
NextMultipleOf4(c) == CHOOSE m \in 0 .. 84 : m % 4 = 0 /\ m > c /\ m <= c + 4

\* C9: terminal_putchar('\t') from column c goes to the next multiple of 4
\* strictly greater than c (0 -> 4, 5 -> 8); if that is 80 or more (c in
\* 76..79) the cursor wraps as '\n' does: column 0, the next row, and on row
\* 24 a scroll with the row left at 24.
C9_Tab ==
    [][(call'.op = "terminal_putchar" /\ call'.c = TAB)
        => LET c == terminal_column
               r == terminal_row
               n == NextMultipleOf4(c)
               nl == PutNewline(Term)
           IN  /\ n < 80 => /\ terminal_column' = n
                             /\ terminal_row' = r
                             /\ nscroll' = 0
               /\ n >= 80 <=> c \in 76 .. 79
               /\ n >= 80 => /\ terminal_column' = 0
                              /\ terminal_row' = (IF r = 24 THEN 24 ELSE r + 1)
                              /\ nscroll' = (IF r = 24 THEN 1 ELSE 0)
                              /\ terminal_buffer' = nl.buf
                              /\ terminal_row' = nl.row /\ terminal_column' = nl.col
               /\ c = 0 => terminal_column' = 4
               /\ c = 5 => terminal_column' = 8]_vars

\* A tab was put at column 78 of row 24: the screen scrolled.
C9_Witness ==
    /\ call.op = "terminal_putchar" /\ call.c = TAB
    /\ call.row = 24 /\ call.col = 78
    /\ terminal_row = 24 /\ terminal_column = 0 /\ nscroll = 1

\* C10: terminal_putchar('\n') from (r, c) goes to column 0 and to row r + 1
\* when r < 24; on row 24 it scrolls exactly once and stays on row 24.
C10_Newline ==
    [][(call'.op = "terminal_putchar" /\ call'.c = NL)
        => /\ terminal_column' = 0
           /\ terminal_row < 24 => terminal_row' = terminal_row + 1 /\ nscroll' = 0
           /\ terminal_row = 24 => terminal_row' = 24 /\ nscroll' = 1]_vars

\* A newline was put at (24, 79): the screen scrolled once.
C10_Witness ==
    /\ call.op = "terminal_putchar" /\ call.c = NL
    /\ call.row = 24 /\ call.col = 79
    /\ terminal_row = 24 /\ terminal_column = 0 /\ nscroll = 1

\* C11: terminal_initialize, called in any state of the terminal, leaves
\* every one of the 80 x 25 cells a space in light grey on black (0x0720),
\* the cursor at (0, 0) and the current attribute 0x07.
C11_InitializeClears ==
    [][call'.op = "terminal_initialize"
        => /\ \A y \in 0 .. 24 : \A x \in 0 .. 79 : terminal_buffer'[y][x] = 32 + 256 * 7
           /\ terminal_row' = 0 /\ terminal_column' = 0
           /\ terminal_color' = 7]_vars

\* terminal_initialize was called in another colour with the cursor on the
\* last row, after output there: the last row is blank again.
C11_Witness ==
    /\ call.op = "terminal_initialize"
    /\ call.color = 79 /\ call.row = 24 /\ call.col > 0
    /\ terminal_buffer[24][0] = 32 + 256 * 7
    /\ terminal_row = 0 /\ terminal_column = 0 /\ terminal_color = 7

\* C12: terminal_setcolor(a) makes a the current attribute and changes
\* nothing else: every cell, the cursor row and the cursor column stay as
\* they were. terminal_putchar and terminal_write leave the current
\* attribute as it is, and the cell a plain byte is put in carries it (the
\* cell is (row, col), found one row up when the call scrolled).
C12_SetColorFrame ==
    [][/\ call'.op = "terminal_setcolor"
            => /\ terminal_color' = call'.c
               /\ terminal_buffer' = terminal_buffer
               /\ terminal_row' = terminal_row
               /\ terminal_column' = terminal_column
       /\ call'.op \in {"terminal_putchar", "terminal_write"}
            => terminal_color' = terminal_color
       /\ (call'.op = "terminal_putchar" /\ Plain(call'.c))
            => LET y == IF terminal_row = 24 /\ terminal_column = 79
                        THEN 23 ELSE terminal_row
               IN  terminal_buffer'[y][terminal_column] \div 256 = terminal_color
       /\ (call.op = "terminal_setcolor" /\ call'.op = "terminal_putchar"
                /\ Plain(call'.c))
            => LET y == IF terminal_row = 24 /\ terminal_column = 79
                        THEN 23 ELSE terminal_row
               IN  terminal_buffer'[y][terminal_column] \div 256 = call.c]_vars

\* The second plain byte put after terminal_setcolor(0x4F): both cells carry
\* 0x4F, the cell after them is still a blank in the colour it had.
C12_Witness ==
    /\ call.op = "terminal_putchar" /\ call.c = 65
    /\ call.color = 79 /\ call.row = 0 /\ call.col = 1
    /\ terminal_buffer[0][0] = 65 + 256 * 79
    /\ terminal_buffer[0][1] = 65 + 256 * 79
    /\ terminal_buffer[0][2] = 32 + 256 * 7
    /\ terminal_color = 79

\* C17: a terminal_putchar call that does not advance the row past 24
\* scrolls nothing and leaves every cell but the cursor cell as it was ('\n'
\* and '\t' leave every cell as it was: a tab paints no blanks); a call that
\* advances the row past 24 scrolls exactly once.
C17_OnlyScrollMoves ==
    [][call'.op = "terminal_putchar"
        => LET c == call'.c
               past == terminal_row = 24 /\ Wraps(terminal_column, c)
           IN  /\ ~past
                    => /\ nscroll' = 0
                       /\ \A y \in 0 .. 24 :
                             IF y # terminal_row
                             THEN terminal_buffer'[y] = terminal_buffer[y]
                             ELSE \A x \in 0 .. 79 :
                                      x # terminal_column
                                          => terminal_buffer'[y][x] = terminal_buffer[y][x]
                       /\ ~Plain(c) => terminal_buffer' = terminal_buffer
               /\ past => nscroll' = 1]_vars

\* A tab was put at (0, 1), after a byte, in another colour than the
\* screen's: the cells it passed over are the blanks they were.
C17_Witness ==
    /\ call.op = "terminal_putchar" /\ call.c = TAB
    /\ call.color = 79 /\ call.row = 0 /\ call.col = 1
    /\ terminal_column = 4 /\ nscroll = 0
    /\ terminal_buffer[0][0] = 65 + 256 * 79
    /\ \A x \in 1 .. 3 : terminal_buffer[0][x] = 32 + 256 * 7

(***************************************************************************)
(* Properties of kernel_main and the parser (checked under SpecBoot)       *)
(***************************************************************************)
\* The total_size field of the block's header (the blocks are small).
TotalSize == ReadU32(0).lo

\* The first 0 among the payload bytes a + 8 .. a + size - 1, as an offset
\* from a + 8; size - 8 when there is none.
RECURSIVE Terminator(_, _, _)
Terminator(a, size, n) ==
    IF n >= size - 8 \/ Byte(a + 8 + n) = 0 THEN n ELSE Terminator(a, size, n + 1)

\* From offset a on the block is a sequence of tags of types 1, 2 and 4, the
\* strings ending in a 0 inside their tags, closed by an end tag, all of it
\* inside the declared total size.
RECURSIVE WellFormedFrom(_)
WellFormedFrom(a) ==
    /\ a + 8 <= TotalSize
    /\ TotalSize <= Len(mem)
    /\ LET type == ReadU32(a)
           size == ReadU32(a + 4)
       IN  /\ size.hi = 0 /\ size.lo >= 8
           /\ a + size.lo <= TotalSize
           /\ IF IsType(type, 0) THEN size.lo = 8
              ELSE IF IsType(type, 1) \/ IsType(type, 2)
              THEN /\ Terminator(a, size.lo, 0) < size.lo - 8
                   /\ WellFormedFrom(a + 8 * ((size.lo + 7) \div 8))
              ELSE IF IsType(type, 4)
              THEN size.lo = 16 /\ WellFormedFrom(a + 16)
              ELSE FALSE

\* The records of the tags from offset a on, with the values of each tag.
RECURSIVE RecordsFrom(_)
RecordsFrom(a) ==
    LET type == ReadU32(a)
        size == ReadU32(a + 4)
        next == a + 8 * ((size.lo + 7) \div 8)
    IN  IF IsType(type, 0) THEN <<>>
        ELSE IF IsType(type, 4)
        THEN <<<<4, ReadU32(a + 8), ReadU32(a + 12)>>>> \o RecordsFrom(next)
        ELSE <<<<type.lo, MemBytes(a + 8, Terminator(a, size.lo, 0))>>>>
                 \o RecordsFrom(next)

\* C3: on a well-formed block the parser emits one record per tag of type
\* 1, 2 and 4, in block order, each with the tag's values (the string; for
\* type 4, mem_lower and mem_upper), and then returns.
C3_ExactRecords ==
    (pc \in {"Reporting", "Halted"} /\ parser_calls = 1 /\ WellFormedFrom(8))
        => emitted = RecordsFrom(8)

\* A text was given to terminal_writestring.
NoticeWritten(s) == \E i \in 1 .. Len(written) : written[i] = Text(s)

\* C4: with magic = 0x36d76289 kernel_main prints the success notice and
\* calls the parser; with any other 64-bit value it prints the error and
\* halts, without calling the parser and without a subsystem notice.
C4_MagicDecides ==
    pc \notin {"Start", "MagicChecked"}
        => IF magic = <<0, 0, 14039, 25225>>
           THEN /\ NoticeWritten(S_OK_MULTIBOOT)
                /\ ~NoticeWritten(S_ERR_MAGIC)
                /\ pc \in {"Parse", "TagLoop", "Fault", "Reporting", "Halted"}
                /\ parser_calls = (IF pc = "Parse" THEN 0 ELSE 1)
           ELSE /\ pc = "Halted"
                /\ NoticeWritten(S_ERR_MAGIC)
                /\ ~NoticeWritten(S_OK_MULTIBOOT)
                /\ parser_calls = 0
                /\ emitted = <<>>
                /\ \A s \in {S_INIT_ARCH, S_INIT_MM, S_INIT_SCHED, S_INIT_DRIVERS,
                              S_INIT_FS, S_INFO_PARSING, S_MB_AT} : ~NoticeWritten(s)

\* kernel_main halted on a magic that is 0x36d76289 in its low 32 bits only.
C4_Witness ==
    /\ pc = "Halted"
    /\ magic = <<0, 1, 14039, 25225>>
    /\ NoticeWritten(S_ERR_MAGIC)
    /\ parser_calls = 0

\* C5: when the tags of a block reach no end tag inside the declared total
\* size, the parser stops: its cursor never stands on a tag header that is
\* not inside the first total_size bytes of the block.
C5_CursorWithinDeclaredSize ==
    pc = "TagLoop" => tag + 8 <= TotalSize

\* C6: a tag of a type other than 0 whose size is below 8 makes the parser
\* stop: it does not go on in the loop, does not move its cursor, reads no
\* payload byte and emits nothing.
C6_SmallSizeRejected ==
    [][(pc = "TagLoop" /\ ~HeaderOutside /\ ~IsType(ReadU32(tag), 0)
            /\ ReadU32(tag + 4).hi = 0 /\ ReadU32(tag + 4).lo < 8)
        => /\ pc' # "TagLoop"
           /\ tag' = tag
           /\ emitted' = emitted
           /\ step'.nread = 0]_vars

\* C7: of a tag of type 1 or 2 the parser reads at most size - 8 payload
\* bytes, and the string it emits is no longer than that.
C7_StringReadsWithinTag ==
    ((IsType(step.type, 1) \/ IsType(step.type, 2))
            /\ step.size.hi = 0 /\ step.size.lo >= 8)
        => /\ step.nread <= step.size.lo - 8
           /\ pc # "Fault" => Len(emitted[Len(emitted)][2]) <= step.size.lo - 8

\* A type the switch has no case for, and that does not end the loop.
Unknown(type) == \A k \in {0, 1, 2, 4} : ~IsType(type, k)

\* From offset a on the block is malformed: a tag of a size below 8, a
\* string with no 0 inside its tag, or no end tag inside the declared total
\* size (a tag reaching beyond it included).
RECURSIVE MalformedFrom(_)
MalformedFrom(a) ==
    IF a + 8 > TotalSize THEN TRUE
    ELSE LET type == ReadU32(a)
             size == ReadU32(a + 4)
         IN  IF IsType(type, 0) THEN FALSE
             ELSE IF size.hi > 0 \/ size.lo < 8 \/ a + size.lo > TotalSize THEN TRUE
             ELSE IF (IsType(type, 1) \/ IsType(type, 2))
                        /\ Terminator(a, size.lo, 0) >= size.lo - 8 THEN TRUE
             ELSE MalformedFrom(a + 8 * ((size.lo + 7) \div 8))

\* The records of the block from offset a on when its tags of unknown types
\* are left out: the type of each tag of type 1, 2 and 4 and, for a string
\* tag, its string (what a record of type 4 holds is the matter of C3).
RECURSIVE RecordsWithoutUnknown(_)
RecordsWithoutUnknown(a) ==
    LET type == ReadU32(a)
        size == ReadU32(a + 4)
        next == a + 8 * ((size.lo + 7) \div 8)
    IN  IF IsType(type, 0) THEN <<>>
        ELSE IF Unknown(type) THEN RecordsWithoutUnknown(next)
        ELSE IF IsType(type, 4) THEN <<<<4>>>> \o RecordsWithoutUnknown(next)
        ELSE <<<<type.lo, MemBytes(a + 8, Terminator(a, size.lo, 0))>>>>
                 \o RecordsWithoutUnknown(next)

\* C13: a tag of a type other than 0, 1, 2 and 4 is skipped: the iteration
\* on it emits and prints nothing, reads no payload byte, stays in the loop
\* and moves the cursor by the size rounded up to a multiple of 8 (sizes
\* below 2^16); and when the parser returns from a block that is not
\* malformed, the records it emitted are those of the block without its
\* unknown tags.
C13_UnknownSkipped ==
    [][/\ (pc = "TagLoop" /\ ~HeaderOutside /\ Unknown(ReadU32(tag)))
            => /\ pc' = "TagLoop"
               /\ emitted' = emitted
               /\ written' = written
               /\ step'.nread = 0
               /\ terminal_buffer' = terminal_buffer
               /\ ReadU32(tag + 4).hi = 0
                    => tag' = tag + 8 * ((ReadU32(tag + 4).lo + 7) \div 8)
       /\ (pc = "TagLoop" /\ pc' = "Reporting" /\ ~MalformedFrom(8))
            => emitted' = RecordsWithoutUnknown(8)]_vars

\* The parser returned from the block whose tags are of the types 8 (size
\* 9), 1, 21 (size 15), 6 (size 16), 3 (size 17) and 7 (size 8): it emitted
\* the command line alone.
C13_Witness ==
    /\ pc = "Halted"
    /\ IsType(ReadU32(8), 8) /\ ReadU32(12).lo = 9
    /\ niter = 6
    /\ emitted = <<<<1, TXT_QUIET>>>>

\* The run left the part of the program the model follows: a read outside
\* the memory that is modelled, or MaxIter iterations of the tag loop.
LeftModel == pc = "Fault" \/ (pc = "TagLoop" /\ niter = MaxIter)

\* C14: for every magic and every block, kernel_main eventually reaches
\* Halted and stays there for ever (runs that leave the model aside), and
\* once Halted neither control nor the terminal's cells, cursor and
\* attribute change again.
C14_EventuallyAlwaysHalted ==
    /\ <>LeftModel \/ <>[](pc = "Halted")
    /\ [][pc = "Halted"
            => /\ pc' = "Halted"
               /\ UNCHANGED <<terminal_row, terminal_column, terminal_color,
                              terminal_buffer>>]_vars

\* The texts of the string literals kernel.c hands to terminal_writestring.
LiteralTexts ==
    {Text(s) : s \in {S_RULE, S_TITLE, S_RULE_END, S_ERR_MAGIC, S_HALTED,
                       S_OK_MULTIBOOT, S_INFO_PARSING, S_MB_AT, S_NL, S_CMDLINE,
                       S_BOOTLOADER, S_MEMORY, S_INIT_ARCH, S_INIT_MM,
                       S_INIT_SCHED, S_INIT_DRIVERS, S_INIT_FS, S_READY,
                       S_RUNNING, S_NEXT_STEP}}

\* The notices of a run on a well-formed block: the banner, the magic and
\* parsing notices, the labels of the records, the subsystem notices and the
\* closing lines.
WellFormedRunTexts == LiteralTexts \ {Text(S_ERR_MAGIC), Text(S_HALTED)}

\* A text was written that a run on a well-formed block never writes and
\* that is not the string of a record: a report of something else.
MalformedReported ==
    \E i \in 1 .. Len(written) :
        /\ written[i] \notin WellFormedRunTexts
        /\ \A j \in 1 .. Len(emitted) :
              Len(emitted[j]) < 2 \/ emitted[j][2] # written[i]

\* The five subsystem notices, in the order of kernel_main.
SubsystemNotices ==
    <<Text(S_INIT_ARCH), Text(S_INIT_MM), Text(S_INIT_SCHED), Text(S_INIT_DRIVERS),
      Text(S_INIT_FS)>>

\* C15: on the Multiboot2 magic and a malformed block, kernel_main, once
\* the parser is done, has reported the malformed condition, and it halts
\* with the five subsystem notices written.
C15_MalformedReported ==
    (MagicMatches(magic) /\ MalformedFrom(8))
        => /\ pc \in {"Reporting", "Halted"} => MalformedReported
           /\ pc = "Halted"
                => \A k \in 1 .. 5 : \E i \in 1 .. Len(written) :
                       written[i] = SubsystemNotices[k]

\* C16: parse_multiboot_info has no side effect on the terminal: from its
\* call to its return no step of it changes a cell, the cursor or the
\* attribute, and none hands a text to terminal_writestring.
C16_ParserSilent ==
    [][(pc \in {"Parse", "TagLoop"})
        => /\ UNCHANGED <<terminal_row, terminal_column, terminal_color,
                          terminal_buffer>>
           /\ written' = written]_vars

\* The subsystem notices among the texts from the i-th on, in the order
\* they were written.
RECURSIVE NoticesIn(_, _)
NoticesIn(texts, i) ==
    IF i > Len(texts) THEN <<>>
    ELSE IF \E k \in 1 .. 5 : texts[i] = SubsystemNotices[k]
    THEN <<texts[i]>> \o NoticesIn(texts, i + 1)
    ELSE NoticesIn(texts, i + 1)

\* The texts parse_multiboot_info writes of its own.
ParserTexts == {Text(S_MB_AT), Text(S_CMDLINE), Text(S_BOOTLOADER), Text(S_MEMORY)}

\* C18: on the Multiboot2 magic the five subsystem notices are written once
\* each, in the order architecture, memory management, scheduler, drivers,
\* filesystem: none before the parser has returned, all five by the time
\* kernel_main is Halted, and every one after every text of the parser.
C18_NoticesInOrder ==
    /\ pc \in {"Start", "MagicChecked", "Parse", "TagLoop", "Fault", "Reporting"}
            => NoticesIn(written, 1) = <<>>
    /\ (pc = "Halted" /\ magic = <<0, 0, 14039, 25225>>)
            => /\ NoticesIn(written, 1) = SubsystemNotices
               /\ \A i, j \in 1 .. Len(written) :
                     (written[i] \in ParserTexts
                          /\ \E k \in 1 .. 5 : written[j] = SubsystemNotices[k])
                         => i < j

\* kernel_main halted after the parser went through a command line, a
\* bootloader name and a memory tag: the five notices are written.
C18_Witness ==
    /\ pc = "Halted"
    /\ magic = <<0, 0, 14039, 25225>>
    /\ Len(emitted) = 3
    /\ NoticesIn(written, 1) = SubsystemNotices
    /\ written[Len(written)] = Text(S_NEXT_STEP)

\* The least multiple of 8 that is at least n.
LeastMultipleOf8From(n) == CHOOSE m \in n .. n + 7 : m % 8 = 0

\* C19 as claimed: an iteration of the loop on a tag of size s moves the
\* cursor from the tag's start by 8, 16, 16, 24, 24 bytes for s = 8, 9, 15,
\* 16, 17.
C19_NextTagOffsetAsClaimed ==
    [][(pc = "TagLoop" /\ pc' = "TagLoop" /\ ReadU32(tag + 4).hi = 0
            /\ tag' < OutOfReach)
        => LET s == ReadU32(tag + 4).lo
               offset == tag' - tag
           IN  /\ s = 8 => offset = 8
               /\ s = 9 => offset = 16
               /\ s = 15 => offset = 16
               /\ s = 16 => offset = 24
               /\ s = 17 => offset = 24]_vars

\* C19, amended: an iteration of the loop on a tag of size s moves the
\* cursor from the tag's start by (s + 7) & ~7, the least multiple of 8 from
\* s on (every s below 2^16 whose next tag is within reach): by 8, 16, 16,
\* 16, 24 bytes for s = 8, 9, 15, 16, 17.
C19_NextTagOffset ==
    [][(pc = "TagLoop" /\ pc' = "TagLoop" /\ ReadU32(tag + 4).hi = 0
            /\ tag' < OutOfReach)
        => LET s == ReadU32(tag + 4).lo
               offset == tag' - tag
           IN  /\ s = 8 => offset = 8
               /\ s = 9 => offset = 16
               /\ s = 15 => offset = 16
               /\ s = 16 => offset = 16
               /\ s = 17 => offset = 24
               /\ offset = LeastMultipleOf8From(s)]_vars

\* The parser went through tags of the sizes 9, 14 and 15 and has just
\* stepped over a tag of size 16 (type 6), by 16 bytes; tags of the sizes 17
\* and 8 follow.
C19_Witness ==
    /\ pc = "TagLoop"
    /\ IsType(ReadU32(8), 8) /\ ReadU32(12).lo = 9
    /\ niter = 4
    /\ IsType(step.type, 6) /\ step.size = [hi |-> 0, lo |-> 16]
    /\ tag = step.tag + 16
    /\ ReadU32(tag + 4).lo = 17

\* C20: an iteration of the loop on a tag of a size s >= 8 moves the cursor
\* strictly forward, by a multiple of 8 that is at least s: past the tag's
\* own bytes (for s of 2^16 and more, past every byte that is modelled).
C20_AdvancePastTag ==
    [][(pc = "TagLoop" /\ pc' = "TagLoop"
            /\ (ReadU32(tag + 4).hi > 0 \/ ReadU32(tag + 4).lo >= 8))
        => LET size == ReadU32(tag + 4)
           IN  /\ tag' > tag
               /\ size.hi > 0 => tag' = OutOfReach
               /\ (size.hi = 0 /\ tag' < OutOfReach)
                    => /\ tag' - tag >= size.lo
                       /\ (tag' - tag) % 8 = 0]_vars

====
